---- MODULE Spec2Model ----
(***************************************************************************)
(* Model of xml2mql.py: the SAX content handler BaseHandler and its        *)
(* subclass MQLGeneratorHandler, which turns start/characters/end events   *)
(* into Emdros objects (SRObject) and tokens (Token) positioned on monads. *)
(*                                                                         *)
(* Strings are sequences of one-character strings.  A Python exception     *)
(* raised by a handler ends the run: status records which one, and the     *)
(* assignments made before the raise are kept.                             *)
(***************************************************************************)
EXTENDS Integers, Sequences, FiniteSets, TLC

VARIABLES
    script,        \* the JSON script loaded by MQLGeneratorHandler.__init__
    elemstack,     \* BaseHandler.elemstack
    charstack,     \* BaseHandler.charstack
    nixing_stack,  \* BaseHandler.nixing_stack
    objstacks,     \* MQLGeneratorHandler.objstacks: objectTypeName -> open objects
    objects,       \* MQLGeneratorHandler.objects: objectTypeName -> finished objects
    tokens,        \* MQLGeneratorHandler.tokens: tokenObjectTypeName -> tokens
    curmonad,      \* MQLGeneratorHandler.curmonad
    curdocindex,   \* MQLGeneratorHandler.curdocindex
    curid_d,       \* MQLGeneratorHandler.curid_d
    status,        \* "running", "done", or the exception that ended the run
    docno,         \* ordinal of the document being processed
    prevRuns,      \* what the handlers of the earlier documents left behind
    nevents,       \* number of events delivered so far
    input,         \* the document being read (SpecDoc); <<>> for a free stream
    schema,        \* MQLGeneratorHandler.schema: objectTypeName -> description
    ustr,          \* mangleMQLString: the string handed to it, as code points
    mangled,       \* mangleMQLString: the bytes it returned
    element2ObjectTypeName,  \* JSONGeneratorHandler.element2ObjectTypeName
    objectTypeName2Element   \* JSONGeneratorHandler.objectTypeName2Element

vars == <<script, elemstack, charstack, nixing_stack, objstacks, objects,
          tokens, curmonad, curdocindex, curid_d, status, docno,
          prevRuns, nevents, input, schema, ustr, mangled,
          element2ObjectTypeName, objectTypeName2Element>>

(***************************************************************************)
(* Bounds.                                                                 *)
(***************************************************************************)
MaxEvents == 6     \* events delivered to the handlers of a corpus
MaxMinLen == 3     \* largest configured minimumMonadLength
MaxDocs == 2       \* documents in the corpus
PadFuel == 8       \* iterations granted to the padding loop
MaxStrLen == 4     \* code points in a string handed to mangleMQLString

(***************************************************************************)
(* Generic helpers.                                                        *)
(***************************************************************************)
None == "None"

Last(s) == s[Len(s)]

Front(s) == SubSeq(s, 1, Len(s) - 1)

Min(a, b) == IF a < b THEN a ELSE b

\* dict.get(k, default)
DictGet(d, k, default) == IF k \in DOMAIN d THEN d[k] ELSE default

\* d[k] = v on a dict
DictSet(d, k, v) == [x \in DOMAIN d \cup {k} |-> IF x = k THEN v ELSE d[x]]

\* "".join(list)
RECURSIVE Join(_)
Join(list) == IF list = <<>> THEN <<>> ELSE Head(list) \o Join(Tail(list))

RECURSIVE SumLen(_, _)
SumLen(d, keys) ==
    IF keys = {} THEN 0
    ELSE LET k == CHOOSE x \in keys : TRUE
         IN  Len(d[k]) + SumLen(d, keys \ {k})

\* number of list items held by a dict of lists
DictCount(d) == SumLen(d, DOMAIN d)

\* all items held by a dict of lists
DictItems(d) == UNION {{d[k][i] : i \in 1..Len(d[k])} : k \in DOMAIN d}

(***************************************************************************)
(* The script.                                                             *)
(***************************************************************************)
Tags == {"p", "d", "m", "note", "i", "u"}

TokenTypeName == "word"

\* the smallest and the default minimumMonadLength
MinimumMonadLengths == {0, 1}

HandledElements(L) ==
    [t \in {"p", "d", "m"} |->
        IF t = "p"
        THEN [objectTypeName |-> "paragraph", tokenObjectTypeName |-> TokenTypeName,
              minimumMonadLength |-> 1]
        ELSE IF t = "d"
        THEN [objectTypeName |-> "division", tokenObjectTypeName |-> None,
              minimumMonadLength |-> L]
        ELSE [objectTypeName |-> "milestone", tokenObjectTypeName |-> None,
              minimumMonadLength |-> MaxMinLen]]

\* docIndexIncrementBeforeObjectType: absent, or a configured value
DocIndexIncrementDicts ==
    {<<>>} \cup {[t \in {TokenTypeName} |-> k] : k \in {-1, 2}}

MakeScript(incs, L) ==
    [global_parameters |->
        [docIndexFeatureName |-> "xmlindex",
         docIndexIncrementBeforeObjectType |-> incs,
         tokenObjectTypeNameList |-> <<TokenTypeName>>],
     handled_elements |-> HandledElements(L),
     ignored_elements |-> {"i"},
     nixed_elements |-> {"note"}]

Scripts ==
    {MakeScript(incs, L) : incs \in DocIndexIncrementDicts, L \in MinimumMonadLengths}

\* the attributes a script declares for an element: one string feature and
\* one that is not a string
DeclaredAttributes ==
    [id |-> [featureName |-> "id", featureType |-> "STRING"],
     n |-> [featureName |-> "n", featureType |-> "INTEGER"]]

\* the classifications given to tag m by the scripts of NestScripts
Classifications == {"handled", "ignored", "nixed"}

\* handled elements where d declares attributes and m, when handled, shares
\* the object type of d and leaves minimumMonadLength to its default
NestHandledElements(mclass) ==
    [t \in {"p", "d"} \cup (IF mclass = "handled" THEN {"m"} ELSE {}) |->
        IF t = "p"
        THEN [objectTypeName |-> "paragraph", tokenObjectTypeName |-> TokenTypeName,
              minimumMonadLength |-> 1]
        ELSE IF t = "d"
        THEN [objectTypeName |-> "division", tokenObjectTypeName |-> None,
              minimumMonadLength |-> 1, attributes |-> DeclaredAttributes]
        ELSE [objectTypeName |-> "division", tokenObjectTypeName |-> None]]

MakeNestScript(mclass) ==
    [global_parameters |->
        [docIndexFeatureName |-> "xmlindex",
         docIndexIncrementBeforeObjectType |-> <<>>,
         tokenObjectTypeNameList |-> <<TokenTypeName>>],
     handled_elements |-> NestHandledElements(mclass),
     ignored_elements |-> {"i"} \cup (IF mclass = "ignored" THEN {"m"} ELSE {}),
     nixed_elements |-> {"note"} \cup (IF mclass = "nixed" THEN {"m"} ELSE {})]

NestScripts == {MakeNestScript(mclass) : mclass \in Classifications}

\* the attributes a start marker for tag carries: none, or all those the
\* script declares for tag (handleElementStart reads no other attribute)
Attributes(tag) ==
    {<<>>} \cup
    (IF tag \in DOMAIN script.handled_elements
        /\ "attributes" \in DOMAIN script.handled_elements[tag]
     THEN {[key \in DOMAIN script.handled_elements[tag].attributes |-> <<"1">>]}
     ELSE {})

\* MQLGeneratorHandler.initialize: the three tag sets
handled_elements == DOMAIN script.handled_elements

ignored_elements == script.ignored_elements

nixed_elements == script.nixed_elements

(***************************************************************************)
(* Text and the tokenizer.                                                 *)
(***************************************************************************)
TextChunks == {<<"a">>, <<"a", " ", "b">>}

\* latin_tokenizer.tokenize_string: split on whitespace; prefix + surface +
\* suffix of the triples, in order, give back the text up to trailing and
\* all-blank text, which yield no triple of their own.
RECURSIVE Scan(_, _, _)
Scan(s, toks, cur) ==
    IF s = <<>>
    THEN IF cur.surface = <<>> THEN toks ELSE Append(toks, cur)
    ELSE LET c == Head(s)
         IN  IF c = " "
             THEN IF cur.surface = <<>>
                  THEN Scan(Tail(s), toks, [cur EXCEPT !.prefix = Append(@, c)])
                  ELSE Scan(Tail(s), toks, [cur EXCEPT !.suffix = Append(@, c)])
             ELSE IF cur.suffix # <<>>
                  THEN Scan(Tail(s), Append(toks, cur),
                            [prefix |-> <<>>, surface |-> <<c>>, suffix |-> <<>>])
                  ELSE Scan(Tail(s), toks, [cur EXCEPT !.surface = Append(@, c)])

tokenize_string(s) ==
    Scan(s, <<>>, [prefix |-> <<>>, surface |-> <<>>, suffix |-> <<>>])

(***************************************************************************)
(* MQL string mangling.  A string is a sequence of code points, a byte     *)
(* string a sequence of numbers below 256.                                 *)
(***************************************************************************)
\* tab, newline, the quote, the backslash, the letters 3 c n x, e-acute
CodePoints == {9, 10, 34, 92, 51, 99, 110, 120, 233}

\* the strings of at most n code points
RECURSIVE StringsUpTo(_)
StringsUpTo(n) ==
    IF n = 0 THEN {<<>>}
    ELSE LET shorter == StringsUpTo(n - 1)
         IN  shorter \cup {Append(u, c) : u \in shorter, c \in CodePoints}

\* str.encode('utf-8'), for code points below 2048
RECURSIVE encode_utf8(_)
encode_utf8(u) ==
    IF u = <<>> THEN <<>>
    ELSE LET c == Head(u)
         IN  (IF c < 128 THEN <<c>>
              ELSE <<192 + (c \div 64), 128 + (c % 64)>>) \o encode_utf8(Tail(u))

\* special_sub leaving the backslash as it is
special_sub_KeepBackslash(c) ==
    IF c = 10 THEN <<92, 110>>
    ELSE IF c = 9 THEN <<92, 116>>
    ELSE <<92, 34>>

\* special_sub: special_dict[c], for a byte c matched by special_re
special_sub(c) ==
    IF c = 10 THEN <<92, 110>>
    ELSE IF c = 9 THEN <<92, 116>>
    ELSE IF c = 34 THEN <<92, 34>>
    ELSE <<92, 92>>

\* the bytes special_re matches: newline, tab, quote, backslash
special_re == {10, 9, 34, 92}

\* the bytes upper_bit_re matches
upper_bit_re == 128..255

\* the byte of hexadecimal digit n, in lower case as %02x writes it
HexDigit(n) == IF n < 10 THEN 48 + n ELSE 87 + n

\* upper_bit_sub: b"\\x%02x" % ord(c)
upper_bit_sub(c) == <<92, 120, HexDigit(c \div 16), HexDigit(c % 16)>>

\* special_re.sub(special_sub, bytes)
RECURSIVE special_re_sub(_)
special_re_sub(bytes) ==
    IF bytes = <<>> THEN <<>>
    ELSE (IF Head(bytes) \in special_re THEN special_sub(Head(bytes))
          ELSE <<Head(bytes)>>)
         \o special_re_sub(Tail(bytes))

\* upper_bit_re.sub(upper_bit_sub, bytes)
RECURSIVE upper_bit_re_sub(_)
upper_bit_re_sub(bytes) ==
    IF bytes = <<>> THEN <<>>
    ELSE (IF Head(bytes) \in upper_bit_re THEN upper_bit_sub(Head(bytes))
          ELSE <<Head(bytes)>>)
         \o upper_bit_re_sub(Tail(bytes))

mangleMQLString(u) ==
    LET result == special_re_sub(encode_utf8(u))
    IN  upper_bit_re_sub(result)

\* the value of the hexadecimal digit whose byte is c
HexValue(c) == IF c \in 48..57 THEN c - 48 ELSE c - 87

\* the inverse unescape rule, read from left to right: \n, \t, \", \\ and
\* \xHH stand for one byte each, any other byte for itself; <<-1>> when a
\* backslash is followed by none of these
RECURSIVE unmangle(_)
unmangle(bytes) ==
    IF bytes = <<>> THEN <<>>
    ELSE IF Head(bytes) # 92 THEN <<Head(bytes)>> \o unmangle(Tail(bytes))
    ELSE IF Len(bytes) >= 2 /\ bytes[2] \in {110, 116, 34, 92}
    THEN <<(IF bytes[2] = 110 THEN 10 ELSE IF bytes[2] = 116 THEN 9 ELSE bytes[2])>>
         \o unmangle(SubSeq(bytes, 3, Len(bytes)))
    ELSE IF /\ Len(bytes) >= 4
            /\ bytes[2] = 120
            /\ bytes[3] \in (48..57) \cup (97..102)
            /\ bytes[4] \in (48..57) \cup (97..102)
    THEN <<16 * HexValue(bytes[3]) + HexValue(bytes[4])>>
         \o unmangle(SubSeq(bytes, 5, Len(bytes)))
    ELSE <<-1>>

(***************************************************************************)
(* Token and SRObject.                                                     *)
(***************************************************************************)
Token(monad, prefix, surface, suffix, xmlindex, id_d) ==
    [monad |-> monad, prefix |-> prefix, surface |-> surface,
     suffix |-> suffix, xmlindex |-> xmlindex, id_d |-> id_d]

SRObject(objectTypeName, starting_monad) ==
    [objectTypeName |-> objectTypeName, fm |-> starting_monad,
     lm |-> starting_monad, stringFeatures |-> <<>>,
     nonStringFeatures |-> <<>>, id_d |-> 0]

setStringFeature(obj, name, value) ==
    [obj EXCEPT !.stringFeatures = DictSet(@, name, value)]

setNonStringFeature(obj, name, value) ==
    [obj EXCEPT !.nonStringFeatures = DictSet(@, name, value)]

\* setLastMonad without the clamp to the first monad
setLastMonad_NoClamp(obj, ending_monad) == [obj EXCEPT !.lm = ending_monad]

setLastMonad(obj, ending_monad) ==
    IF ending_monad < obj.fm
    THEN [obj EXCEPT !.lm = obj.fm]
    ELSE [obj EXCEPT !.lm = ending_monad]

getMonadLength(obj) == obj.lm - obj.fm + 1

(***************************************************************************)
(* MQLGeneratorHandler: the position tracker.  Its methods are operators   *)
(* on the record pt of the fields they assign; pt.err names the exception  *)
(* raised, "" when none.                                                   *)
(***************************************************************************)
PT == [tokens |-> tokens, objstacks |-> objstacks, objects |-> objects,
       curmonad |-> curmonad, curdocindex |-> curdocindex,
       curid_d |-> curid_d, err |-> ""]

\* createToken putting the new token in front of the collection
createToken_Prepend(pt, tokenObjectTypeName, prefix, surface, suffix) ==
    LET d1 == pt.curdocindex + 1
        t  == Token(pt.curmonad, prefix, surface, suffix, d1, pt.curid_d)
    IN  [pt EXCEPT !.curmonad = @ + 1, !.curid_d = @ + 1,
                   !.curdocindex = d1 + 1,
                   !.tokens[tokenObjectTypeName] = <<t>> \o @]

createToken(pt, tokenObjectTypeName, prefix, surface, suffix) ==
    LET docindex_increment ==
            Min(1, DictGet(script.global_parameters.docIndexIncrementBeforeObjectType,
                           tokenObjectTypeName, 1))
        d1 == pt.curdocindex + docindex_increment
        t  == Token(pt.curmonad, prefix, surface, suffix, d1, pt.curid_d)
        p1 == [pt EXCEPT !.curmonad = @ + 1, !.curid_d = @ + 1,
                         !.curdocindex = d1 + 1]
    IN  IF tokenObjectTypeName \in DOMAIN pt.tokens
        THEN [p1 EXCEPT !.tokens[tokenObjectTypeName] = Append(@, t)]
        ELSE [p1 EXCEPT !.err = "KeyError"]

RECURSIVE createTokens(_, _, _)
createTokens(pt, tokenObjectTypeName, token_list) ==
    IF token_list = <<>> \/ pt.err # "" THEN pt
    ELSE LET tr == Head(token_list)
         IN  createTokens(createToken(pt, tokenObjectTypeName,
                                      tr.prefix, tr.surface, tr.suffix),
                          tokenObjectTypeName, Tail(token_list))

handleChars(pt, chars_before, tag, bIsEndTag) ==
    LET bDoIt ==
            IF ~bIsEndTag THEN FALSE
            ELSE IF tag \notin DOMAIN script.handled_elements THEN FALSE
            ELSE DictGet(script.handled_elements[tag], "tokenObjectTypeName", None) # None
    IN  IF bDoIt
        THEN createTokens(pt, script.handled_elements[tag].tokenObjectTypeName,
                          tokenize_string(chars_before))
        ELSE pt

\* createObject taking a monad for the new object
createObject_TakesMonad(pt, objectTypeName) ==
    LET obj == setNonStringFeature(SRObject(objectTypeName, pt.curmonad),
                                   script.global_parameters.docIndexFeatureName,
                                   pt.curdocindex)
    IN  [pt EXCEPT !.curdocindex = @ + 1,
                   !.curmonad = @ + 1,
                   !.objstacks = DictSet(@, objectTypeName,
                                         Append(DictGet(@, objectTypeName, <<>>), obj))]

createObject(pt, objectTypeName) ==
    LET obj == setNonStringFeature(SRObject(objectTypeName, pt.curmonad),
                                   script.global_parameters.docIndexFeatureName,
                                   pt.curdocindex)
    IN  [pt EXCEPT !.curdocindex = @ + 1,
                   !.objstacks = DictSet(@, objectTypeName,
                                         Append(DictGet(@, objectTypeName, <<>>), obj))]

\* endObject taking the oldest open object of the type instead of the newest
endObject_PopsOldest(pt, objectTypeName) ==
    IF objectTypeName \notin DOMAIN pt.objstacks
    THEN [pt EXCEPT !.err = "KeyError"]
    ELSE IF pt.objstacks[objectTypeName] = <<>>
    THEN [pt EXCEPT !.err = "IndexError"]
    ELSE LET obj == setLastMonad(Head(pt.objstacks[objectTypeName]), pt.curmonad - 1)
         IN  [pt EXCEPT !.objstacks[objectTypeName] = Tail(@),
                        !.objects = DictSet(@, objectTypeName,
                                            Append(DictGet(@, objectTypeName, <<>>), obj))]

\* endObject ending the object at the monad counter instead of one before it
endObject_EndsAtCounter(pt, objectTypeName) ==
    IF objectTypeName \notin DOMAIN pt.objstacks
    THEN [pt EXCEPT !.err = "KeyError"]
    ELSE IF pt.objstacks[objectTypeName] = <<>>
    THEN [pt EXCEPT !.err = "IndexError"]
    ELSE LET obj == setLastMonad(Last(pt.objstacks[objectTypeName]), pt.curmonad)
         IN  [pt EXCEPT !.objstacks[objectTypeName] = Front(@),
                        !.objects = DictSet(@, objectTypeName,
                                            Append(DictGet(@, objectTypeName, <<>>), obj))]

endObject(pt, objectTypeName) ==
    IF objectTypeName \notin DOMAIN pt.objstacks
    THEN [pt EXCEPT !.err = "KeyError"]
    ELSE IF pt.objstacks[objectTypeName] = <<>>
    THEN [pt EXCEPT !.err = "IndexError"]
    ELSE LET obj == setLastMonad(Last(pt.objstacks[objectTypeName]), pt.curmonad - 1)
         IN  [pt EXCEPT !.objstacks[objectTypeName] = Front(@),
                        !.objects = DictSet(@, objectTypeName,
                                            Append(DictGet(@, objectTypeName, <<>>), obj))]

\* the feature types featureTypeIsSTRING accepts: those with "string" in
\* their lower-cased name
StringFeatureTypes == {"STRING", "STRING FROM SET", "STRING WITH INDEX"}

featureTypeIsSTRING(featureType) == featureType \in StringFeatureTypes

getFeatureType(tag, attribute) ==
    DictGet(script.handled_elements[tag].attributes[attribute], "featureType", "STRING")

\* the loop of handleElementStart over the declared attributes keys
RECURSIVE setAttributeFeatures(_, _, _, _)
setAttributeFeatures(obj, tag, attributes, keys) ==
    IF keys = {} THEN obj
    ELSE LET key == CHOOSE k \in keys : TRUE
             featureName == script.handled_elements[tag].attributes[key].featureName
             o1 == IF key \notin DOMAIN attributes THEN obj
                   ELSE IF featureTypeIsSTRING(getFeatureType(tag, key))
                   THEN setStringFeature(obj, featureName, attributes[key])
                   ELSE setNonStringFeature(obj, featureName, attributes[key])
         IN  setAttributeFeatures(o1, tag, attributes, keys \ {key})

handleElementStart(pt, tag, attributes) ==
    IF tag \notin DOMAIN script.handled_elements THEN pt
    ELSE LET objectTypeName == script.handled_elements[tag].objectTypeName
             p1 == createObject(pt, objectTypeName)
             n == Len(p1.objstacks[objectTypeName])
         IN  IF "attributes" \in DOMAIN script.handled_elements[tag]
             THEN [p1 EXCEPT !.objstacks[objectTypeName][n] =
                      setAttributeFeatures(@, tag, attributes,
                          DOMAIN script.handled_elements[tag].attributes)]
             ELSE p1

\* the padding loop leaving one iteration early
RECURSIVE PadLoop_StopsEarly(_, _, _, _)
PadLoop_StopsEarly(obj, monad, minimumMonadLength, fuel) ==
    IF ~(getMonadLength(obj) + 1 < minimumMonadLength)
    THEN [obj |-> obj, curmonad |-> monad, diverged |-> FALSE]
    ELSE IF fuel = 0
    THEN [obj |-> obj, curmonad |-> monad, diverged |-> TRUE]
    ELSE PadLoop_StopsEarly(setLastMonad(obj, monad), monad + 1,
                            minimumMonadLength, fuel - 1)

\* the while loop of handleElementEnd on the object endObject returned: the
\* pair of the padded object and the monad counter, or "diverged" when the
\* loop is still running after fuel iterations
RECURSIVE PadLoop(_, _, _, _)
PadLoop(obj, monad, minimumMonadLength, fuel) ==
    IF ~(getMonadLength(obj) < minimumMonadLength)
    THEN [obj |-> obj, curmonad |-> monad, diverged |-> FALSE]
    ELSE IF fuel = 0
    THEN [obj |-> obj, curmonad |-> monad, diverged |-> TRUE]
    ELSE PadLoop(setLastMonad(obj, monad), monad + 1, minimumMonadLength, fuel - 1)

handleElementEnd(pt, tag) ==
    IF tag \notin DOMAIN script.handled_elements THEN pt
    ELSE LET objectTypeName == script.handled_elements[tag].objectTypeName
             p1 == endObject(pt, objectTypeName)
         IN  IF p1.err # "" THEN p1
             ELSE LET n == Len(p1.objects[objectTypeName])
                      r == PadLoop(p1.objects[objectTypeName][n], p1.curmonad,
                                   DictGet(script.handled_elements[tag],
                                           "minimumMonadLength", 1),
                                   PadFuel)
                  IN  [p1 EXCEPT !.objects[objectTypeName][n] = r.obj,
                                 !.curmonad = r.curmonad,
                                 !.err = IF r.diverged THEN "Diverged" ELSE ""]

(***************************************************************************)
(* Construction.                                                           *)
(***************************************************************************)
ObjectTypeDescription(objectTypeName, objectRangeType) ==
    [objectTypeName |-> objectTypeName,
     objectRangeType |-> IF objectRangeType \notin {None, ""} THEN objectRangeType
                         ELSE "WITH SINGLE RANGE OBJECTS",
     features |-> <<>>]

addFeature(otd, featureName, featureType) ==
    [otd EXCEPT !.features = DictSet(@, featureName, featureType)]

\* the (featureName, featureType) list of makeSchema's first loop
TokenFeatureList ==
    <<[featureName |-> "pre", featureType |-> "STRING FROM SET"],
      [featureName |-> "surface", featureType |-> "STRING WITH INDEX"],
      [featureName |-> "post", featureType |-> "STRING FROM SET"],
      [featureName |-> "surface_lowcase", featureType |-> "STRING WITH INDEX"]>>

RECURSIVE addFeatures(_, _)
addFeatures(otd, list) ==
    IF list = <<>> THEN otd
    ELSE addFeatures(addFeature(otd, Head(list).featureName, Head(list).featureType),
                     Tail(list))

\* the body of makeSchema's first loop, run for one key of global_parameters
makeTokenDescription(tokenObjectTypeName) ==
    addFeature(addFeatures(ObjectTypeDescription(tokenObjectTypeName,
                                                 "WITH SINGLE MONAD OBJECTS"),
                           TokenFeatureList),
               script.global_parameters.docIndexFeatureName, "INTEGER")

\* makeSchema's loop over the declared attributes of one element.  loc holds
\* the local variables featureName and featureType, which the loop reads,
\* as keys of the declaration, before it assigns them.
RECURSIVE makeAttributeFeatures(_, _, _, _)
makeAttributeFeatures(otd, decl, keys, loc) ==
    IF keys = {} THEN [otd |-> otd, loc |-> loc]
    ELSE LET key == CHOOSE k \in keys : TRUE
             featureName == DictGet(decl[key], loc.featureName, "")
             featureType == DictGet(decl[key], loc.featureType, "")
             o1 == IF featureName # "" /\ featureType # ""
                   THEN addFeature(otd, featureName, featureType) ELSE otd
         IN  makeAttributeFeatures(o1, decl, keys \ {key},
                 [featureName |-> featureName, featureType |-> featureType])

\* makeSchema's second loop, over the handled elements
RECURSIVE makeElementDescriptions(_, _, _)
makeElementDescriptions(sch, elements, loc) ==
    IF elements = {} THEN sch
    ELSE LET element_name == CHOOSE e \in elements : TRUE
             el == script.handled_elements[element_name]
             o0 == ObjectTypeDescription(el.objectTypeName,
                       DictGet(el, "objectRangeType", "WITH SINGLE RANGE OBJECTS"))
             r  == IF "attributes" \in DOMAIN el
                   THEN makeAttributeFeatures(o0, el.attributes, DOMAIN el.attributes, loc)
                   ELSE [otd |-> o0, loc |-> loc]
             o1 == addFeature(r.otd, script.global_parameters.docIndexFeatureName,
                              "INTEGER")
         IN  makeElementDescriptions(DictSet(sch, el.objectTypeName, o1),
                                     elements \ {element_name}, r.loc)

\* MQLGeneratorHandler.makeSchema: the first loop runs over the keys of
\* global_parameters and leaves featureName and featureType at the last pair
\* of its list
makeSchema ==
    makeElementDescriptions(
        [tokenObjectTypeName \in DOMAIN script.global_parameters |->
            makeTokenDescription(tokenObjectTypeName)],
        DOMAIN script.handled_elements,
        Last(TokenFeatureList))

\* MQLGeneratorHandler.__init__ followed by initialize(): the fields of the
\* new handler
MQLGeneratorHandler(first_monad, first_id_d) ==
    [elemstack |-> <<>>,
     charstack |-> <<>>,
     nixing_stack |-> <<>>,
     objstacks |-> <<>>,
     objects |-> <<>>,
     tokens |-> [t \in {script.global_parameters.tokenObjectTypeNameList[i] :
                        i \in 1..Len(script.global_parameters.tokenObjectTypeNameList)}
                 |-> <<>>],
     curdocindex |-> 1,
     curmonad |-> first_monad,
     curid_d |-> first_id_d,
     schema |-> makeSchema]

\* the state after construction from one of scripts, before the first event
\* of document doc
Constructed(scripts, doc) ==
    /\ script \in scripts
    /\ LET h == MQLGeneratorHandler(1, 1)
       IN  /\ elemstack = h.elemstack
           /\ charstack = h.charstack
           /\ nixing_stack = h.nixing_stack
           /\ objstacks = h.objstacks
           /\ objects = h.objects
           /\ tokens = h.tokens
           /\ curdocindex = h.curdocindex
           /\ curmonad = h.curmonad
           /\ curid_d = h.curid_d
           /\ schema = h.schema
    /\ status = "running"
    /\ docno = 1
    /\ prevRuns = <<>>
    /\ nevents = 0
    /\ input = doc
    /\ element2ObjectTypeName = <<>>
    /\ objectTypeName2Element = <<>>

StartIn(scripts, doc) ==
    /\ Constructed(scripts, doc)
    /\ ustr = <<>>
    /\ mangled = <<>>

Start(doc) == StartIn(Scripts, doc)

Init == Start(<<>>)

(***************************************************************************)
(* Events.                                                                 *)
(***************************************************************************)
SetPT(pt) ==
    /\ tokens' = pt.tokens
    /\ objstacks' = pt.objstacks
    /\ objects' = pt.objects
    /\ curmonad' = pt.curmonad
    /\ curdocindex' = pt.curdocindex
    /\ curid_d' = pt.curid_d

\* BaseHandler.characters
Characters(data) ==
    /\ status = "running"
    /\ charstack' = Append(charstack, data)
    /\ UNCHANGED <<script, elemstack, nixing_stack, objstacks, objects, tokens,
                   curmonad, curdocindex, curid_d, status, docno, prevRuns, schema>>

\* startElement not pushing a nixed tag met inside a nixed subtree
StartBranch_NoNestedNix(tag) ==
    IF Len(nixing_stack) # 0 THEN "pass"
    ELSE IF tag \in nixed_elements THEN "nix"
    ELSE IF tag \in handled_elements THEN "handle"
    ELSE IF tag \in ignored_elements THEN "pass"
    ELSE "raise"

\* startElement refusing an unknown tag before it looks at the nixing stack
StartBranch_UnknownFirst(tag) ==
    IF tag \in nixed_elements THEN "nix"
    ELSE IF tag \notin handled_elements \cup ignored_elements THEN "raise"
    ELSE IF Len(nixing_stack) # 0 THEN "pass"
    ELSE IF tag \in handled_elements THEN "handle"
    ELSE "pass"

\* the branch startElement takes for tag
StartBranch(tag) ==
    IF tag \in nixed_elements THEN "nix"
    ELSE IF Len(nixing_stack) # 0 THEN "pass"
    ELSE IF tag \in handled_elements THEN "handle"
    ELSE IF tag \in ignored_elements THEN "pass"
    ELSE "raise"

\* BaseHandler.startElement
StartElement(tag, attributes) ==
    /\ status = "running"
    /\ LET chars == Join(charstack)
           p0 == handleChars(PT, chars, tag, FALSE)
           branch == StartBranch(tag)
           p1 == IF p0.err = "" /\ branch = "handle"
                 THEN handleElementStart(p0, tag, attributes) ELSE p0
       IN  /\ elemstack' = Append(elemstack, tag)
           /\ charstack' = <<>>
           /\ nixing_stack' = IF p0.err = "" /\ branch = "nix"
                              THEN Append(nixing_stack, tag) ELSE nixing_stack
           /\ SetPT(p1)
           /\ status' = IF p1.err # "" THEN p1.err
                        ELSE IF branch = "raise" THEN "UnknownStartTag"
                        ELSE "running"
    /\ UNCHANGED <<script, docno, prevRuns, schema>>

\* the branch endElement takes for tag
EndBranch(tag) ==
    IF Len(nixing_stack) # 0 /\ Last(nixing_stack) = tag THEN "unnix"
    ELSE IF Len(nixing_stack) # 0 THEN "pass"
    ELSE IF tag \in handled_elements THEN "handle"
    ELSE IF tag \in ignored_elements THEN "pass"
    ELSE "raise"

\* the position tracker after endElement's handleChars and handleElementEnd
EndPT(tag) ==
    LET p0 == handleChars(PT, Join(charstack), tag, TRUE)
    IN  IF p0.err = "" /\ EndBranch(tag) = "handle"
        THEN handleElementEnd(p0, tag) ELSE p0

\* BaseHandler.endElement
EndElement(tag) ==
    /\ status = "running"
    /\ LET branch == EndBranch(tag)
           p1 == EndPT(tag)
           raised == IF p1.err # "" THEN p1.err
                     ELSE IF branch = "raise" THEN "UnknownEndTag"
                     ELSE ""
       IN  /\ charstack' = <<>>
           /\ nixing_stack' = IF p1.err = "" /\ branch = "unnix"
                              THEN Front(nixing_stack) ELSE nixing_stack
           /\ SetPT(p1)
           /\ elemstack' = IF raised = "" /\ elemstack # <<>>
                           THEN Front(elemstack) ELSE elemstack
           /\ status' = IF raised # "" THEN raised
                        ELSE IF elemstack = <<>> THEN "IndexError"
                        ELSE "running"
    /\ UNCHANGED <<script, docno, prevRuns, schema>>

\* BaseHandler.endDocument
EndDocument ==
    /\ status = "running"
    /\ status' = "done"
    /\ UNCHANGED <<script, elemstack, charstack, nixing_stack, objstacks, objects,
                   tokens, curmonad, curdocindex, curid_d, docno, prevRuns, schema>>

(***************************************************************************)
(* The corpus: documents processed one after the other.                    *)
(***************************************************************************)
\* the monads occupied by the objects and tokens of the current handler
MonadsUsed ==
    UNION {o.fm..o.lm : o \in DictItems(objstacks) \cup DictItems(objects)}
      \cup {t.monad : t \in DictItems(tokens)}

\* what a run leaves behind: its final counters and the size of its output
RunSummary ==
    [curmonad |-> curmonad, curdocindex |-> curdocindex, curid_d |-> curid_d,
     nobjects |-> DictCount(objstacks) + DictCount(objects),
     ntokens |-> DictCount(tokens),
     monads |-> MonadsUsed]

\* The next document of the corpus: a new handler is constructed with
\* first_monad and first_id_d taken from the counters the last one left.
NewDocument ==
    /\ status = "done"
    /\ prevRuns' = Append(prevRuns, RunSummary)
    /\ LET h == MQLGeneratorHandler(curmonad, curid_d)
       IN  /\ elemstack' = h.elemstack
           /\ charstack' = h.charstack
           /\ nixing_stack' = h.nixing_stack
           /\ objstacks' = h.objstacks
           /\ objects' = h.objects
           /\ tokens' = h.tokens
           /\ curdocindex' = h.curdocindex
           /\ curmonad' = h.curmonad
           /\ curid_d' = h.curid_d
           /\ schema' = h.schema
    /\ status' = "running"
    /\ docno' = docno + 1
    /\ UNCHANGED script

(***************************************************************************)
(* doCommand: what MQLGeneratorHandler writes.  A statement is rendered as *)
(* the object type it is written under and the feature names it assigns,   *)
(* a schema entry as its lines, each the pair of words the code writes.    *)
(***************************************************************************)
\* Token.dumpMQL: the feature names assigned in the statement of token t
Token_dumpMQL(t) == {"prefix", "surface", "suffix", "surface_lowcase", "xmlindex"}

\* SRObject.dumpMQL: the feature names assigned in the statement of obj
SRObject_dumpMQL(obj) == DOMAIN obj.nonStringFeatures \cup DOMAIN obj.stringFeatures

\* ObjectTypeDescription.dumpMQL: one line "  %s : %s;" % (featureType,
\* featureName) per feature
ObjectTypeDescription_dumpMQL(otd) ==
    {[left |-> otd.features[featureName], right |-> featureName] :
        featureName \in DOMAIN otd.features}

\* dumpMQLSchema: the entries written, by object type name
dumpMQLSchema ==
    [objectTypeName \in DOMAIN schema |->
        ObjectTypeDescription_dumpMQL(schema[objectTypeName])]

\* dumpMQLObjects: the statements written for the finished objects and for
\* the tokens
dumpMQLObjects ==
    UNION {{[objectTypeName |-> T, features |-> SRObject_dumpMQL(objects[T][i])] :
               i \in 1..Len(objects[T])} : T \in DOMAIN objects}
    \cup
    UNION {{[objectTypeName |-> T, features |-> Token_dumpMQL(tokens[T][i])] :
               i \in 1..Len(tokens[T])} : T \in DOMAIN tokens}

(***************************************************************************)
(* Spec: one handler under any stream of properly nested markers and text, *)
(* which may end at any point, within the bounds.                          *)
(***************************************************************************)
\* an end marker for tag closes the innermost open element
Matches(tag) == elemstack # <<>> /\ Last(elemstack) = tag

Deliver ==
    /\ nevents < MaxEvents
    /\ nevents' = nevents + 1
    /\ UNCHANGED <<input, ustr, mangled, element2ObjectTypeName, objectTypeName2Element>>

Next ==
    \/ \E data \in TextChunks : charstack = <<>> /\ Characters(data) /\ Deliver
    \/ \E tag \in Tags : \E attributes \in Attributes(tag) :
          StartElement(tag, attributes) /\ Deliver
    \/ \E tag \in Tags : Matches(tag) /\ EndElement(tag) /\ Deliver
    \/ EndDocument /\ Deliver

Spec == Init /\ [][Next]_vars

(***************************************************************************)
(* SpecCorpus: several documents, each under a handler of its own.         *)
(***************************************************************************)
NextCorpus ==
    \/ Next
    \/ docno < MaxDocs /\ NewDocument
          /\ UNCHANGED <<nevents, input, ustr, mangled,
                         element2ObjectTypeName, objectTypeName2Element>>

SpecCorpus == Init /\ [][NextCorpus]_vars

(***************************************************************************)
(* SpecNest: one handler under any stream of properly nested markers, with *)
(* scripts that declare attributes, give two elements one object type and  *)
(* classify tag m in each of the three ways.  Every tag is in one of the   *)
(* sets of the script and a run of text is the one word "a".               *)
(***************************************************************************)
InitNest == StartIn(NestScripts, <<>>)

NestTags == {"p", "d", "m", "note", "i"}

NextNest ==
    \/ charstack = <<>> /\ Characters(<<"a">>) /\ Deliver
    \/ \E tag \in NestTags : \E attributes \in Attributes(tag) :
          StartElement(tag, attributes) /\ Deliver
    \/ \E tag \in NestTags : Matches(tag) /\ EndElement(tag) /\ Deliver
    \/ EndDocument /\ Deliver

SpecNest == InitNest /\ [][NextNest]_vars

(***************************************************************************)
(* SpecLoose: one handler under any stream of markers and text, where an   *)
(* end marker need not match the innermost open element.                   *)
(***************************************************************************)
NextLoose ==
    \/ \E data \in TextChunks : charstack = <<>> /\ Characters(data) /\ Deliver
    \/ \E tag \in Tags : \E attributes \in Attributes(tag) :
          StartElement(tag, attributes) /\ Deliver
    \/ \E tag \in Tags : EndElement(tag) /\ Deliver
    \/ EndDocument /\ Deliver

\* the scripts with no configured document-index increment
InitLoose == StartIn({MakeScript(<<>>, L) : L \in MinimumMonadLengths}, <<>>)

SpecLoose == InitLoose /\ [][NextLoose]_vars

(***************************************************************************)
(* SpecMangle: mangleMQLString applied to a string of at most MaxStrLen    *)
(* code points; mangled is <<>> until then and holds the result after.     *)
(***************************************************************************)
InitMangle ==
    /\ Constructed({MakeScript(<<>>, 1)}, <<>>)
    /\ ustr \in StringsUpTo(MaxStrLen)
    /\ mangled = <<>>

Mangle ==
    /\ mangled = <<>>
    /\ mangled' = <<mangleMQLString(ustr)>>
    /\ UNCHANGED <<script, elemstack, charstack, nixing_stack, objstacks, objects,
                   tokens, curmonad, curdocindex, curid_d, status, docno,
                   prevRuns, nevents, input, schema, ustr,
                   element2ObjectTypeName, objectTypeName2Element>>

SpecMangle == InitMangle /\ [][Mangle]_vars

(***************************************************************************)
(* SpecDoc: one handler reading a document of the form                     *)
(*     <p> A <note> [ B <p> C </p> ] </note> D </p>                        *)
(***************************************************************************)
StartEvent(tag) == [kind |-> "start", tag |-> tag, data |-> <<>>, attributes |-> <<>>]

EndEvent(tag) == [kind |-> "end", tag |-> tag, data |-> <<>>, attributes |-> <<>>]

CharsEvent(data) == [kind |-> "chars", tag |-> "", data |-> data, attributes |-> <<>>]

EndDocEvent == [kind |-> "enddoc", tag |-> "", data |-> <<>>, attributes |-> <<>>]

ScenarioDoc(A, D, nested) ==
    <<StartEvent("p"), CharsEvent(A), StartEvent("note")>>
    \o (IF nested
        THEN <<CharsEvent(<<"B">>), StartEvent("p"), CharsEvent(<<"C">>), EndEvent("p")>>
        ELSE <<>>)
    \o <<EndEvent("note"), CharsEvent(D), EndEvent("p"), EndDocEvent>>

ScenarioDocs ==
    {ScenarioDoc(A, D, nested) :
        A \in {<<"A">>, <<"A", " ", "a">>},
        D \in {<<"D">>, <<"D", " ", "d">>},
        nested \in BOOLEAN}

\* the texts A and D of a scenario document
ScenarioA(doc) == doc[2].data

ScenarioD(doc) == doc[Len(doc) - 2].data

InitDoc == \E doc \in ScenarioDocs : Start(doc)

NextDoc ==
    /\ nevents < Len(input)
    /\ nevents' = nevents + 1
    /\ UNCHANGED <<input, ustr, mangled, element2ObjectTypeName, objectTypeName2Element>>
    /\ LET e == input[nevents + 1]
       IN  \/ e.kind = "chars" /\ Characters(e.data)
           \/ e.kind = "start" /\ StartElement(e.tag, e.attributes)
           \/ e.kind = "end" /\ EndElement(e.tag)
           \/ e.kind = "enddoc" /\ EndDocument

SpecDoc == InitDoc /\ [][NextDoc]_vars

(***************************************************************************)
(* JSONGeneratorHandler: the handler that writes a script for a document.  *)
(* Tag names, attribute names and text are sequences of characters here;   *)
(* the identifiers that makeIdentifier builds are strings.                 *)
(***************************************************************************)
\* the name handed to JSONGeneratorHandler.__init__
default_token_name == "t"

\* those of the characters 'a'..'z', 'A'..'Z' and '0'..'9' that the names of
\* the documents use
LowerCaseLetters == {"a", "p", "t"}

UpperCaseLetters == {"A", "P"}

Digits == {"1"}

\* str.lower, on one character
lower(c) == IF c = "A" THEN "a" ELSE IF c = "P" THEN "p" ELSE c

\* "".join(result).lower()
RECURSIVE JoinLower(_)
JoinLower(result) ==
    IF result = <<>> THEN ""
    ELSE lower(Head(result)) \o JoinLower(Tail(result))

\* JSONGeneratorHandler.makeIdentifier
makeIdentifier(instring) ==
    LET c_out(c) == IF c \in LowerCaseLetters THEN c
                    ELSE IF c \in UpperCaseLetters THEN c
                    ELSE IF c \in Digits THEN c
                    ELSE "_"
        result == [i \in 1..Len(instring) |-> c_out(instring[i])]
    IN  IF Len(result) = 0 THEN JoinLower(<<"_">>)
        ELSE IF result[1] \in Digits THEN JoinLower(<<"_">> \o result)
        ELSE JoinLower(result)

\* JSONGeneratorHandler.init_default_script
init_default_script(name) ==
    [global_parameters |->
        [docIndexFeatureName |-> "xmlindex",
         docIndexIncrementBeforeObjectType |-> [n \in {name} |-> 1],
         tokenObjectTypeNameList |-> <<name>>],
     handled_elements |-> <<>>,
     ignored_elements |-> <<>>,
     nixed_elements |-> <<>>]

\* JSONGeneratorHandler.__init__ upon BaseHandler.__init__; the empty name
\* that objectTypeName2Element gives the token name is the sequence <<>>
JSONGeneratorHandler(name) ==
    [elemstack |-> <<>>, charstack |-> <<>>, nixing_stack |-> <<>>,
     nixed_elements |-> {}, ignored_elements |-> {}, handled_elements |-> {},
     bElementHasPCHAR |-> FALSE,
     default_token_name |-> name,
     element2ObjectTypeName |-> <<>>,
     objectTypeName2Element |-> [n \in {name} |-> <<>>],
     script |-> init_default_script(name)]

\* the fields of the handler that its own methods assign
JH ==
    [script |-> script,
     element2ObjectTypeName |-> element2ObjectTypeName,
     objectTypeName2Element |-> objectTypeName2Element]

\* the while loop of makeObjectTypeName
RECURSIVE Suggest(_, _, _)
Suggest(suggestion, o2e, element_name) ==
    IF suggestion \in DOMAIN o2e /\ o2e[suggestion] # element_name
    THEN Suggest(suggestion \o "_", o2e, element_name)
    ELSE suggestion

\* JSONGeneratorHandler.makeObjectTypeName: the handler after it and the
\* name it returns
makeObjectTypeName(h, element_name) ==
    IF element_name \in DOMAIN h.element2ObjectTypeName
    THEN [h |-> h, result |-> h.element2ObjectTypeName[element_name]]
    ELSE LET suggestion == Suggest(makeIdentifier(element_name),
                                   h.objectTypeName2Element, element_name)
         IN  [h |-> [h EXCEPT
                        !.objectTypeName2Element = DictSet(@, suggestion, element_name),
                        !.element2ObjectTypeName = DictSet(@, element_name, suggestion)],
              result |-> suggestion]

\* the for loop over attributes.keys() of updateElement and createElement
AttributeFeatures(old, attributes) ==
    [key \in DOMAIN old \cup DOMAIN attributes |->
        IF key \in DOMAIN attributes
        THEN [featureName |-> makeIdentifier(key), featureType |-> "STRING"]
        ELSE old[key]]

\* JSONGeneratorHandler.updateElement
updateElement(h, tag, attributes, bHasTokens) ==
    LET el == h.script.handled_elements[tag]
        el1 == IF DOMAIN attributes # {}
               THEN DictSet(el, "attributes",
                        AttributeFeatures(DictGet(el, "attributes", <<>>), attributes))
               ELSE el
        el2 == IF bHasTokens
               THEN DictSet(el1, "tokenObjectTypeName", default_token_name)
               ELSE el1
    IN  [h EXCEPT !.script.handled_elements = DictSet(@, tag, el2)]

\* JSONGeneratorHandler.createElement
createElement(h, tag, attributes) ==
    LET made == makeObjectTypeName(h, tag)
        el == [objectTypeName |-> made.result,
               tokenObjectTypeName |-> None,
               minimumMonadLength |-> 1]
        el1 == IF DOMAIN attributes # {}
               THEN DictSet(el, "attributes", AttributeFeatures(<<>>, attributes))
               ELSE el
    IN  [made.h EXCEPT !.script.handled_elements = DictSet(@, tag, el1)]

\* JSONGeneratorHandler.createOrUpdateElement
createOrUpdateElement(h, tag, attributes) ==
    IF tag \in DOMAIN h.script.handled_elements
    THEN updateElement(h, tag, attributes, FALSE)
    ELSE createElement(h, tag, attributes)

\* JSONGeneratorHandler.updateTokenObjectTypeName
updateTokenObjectTypeName(h, element_name) ==
    IF element_name \in DOMAIN h.script.handled_elements
    THEN [h EXCEPT !.script.handled_elements[element_name] =
                      DictSet(@, "tokenObjectTypeName", default_token_name)]
    ELSE h

\* the characters str.strip removes, of those the text uses
Whitespace == {" ", "\n"}

RECURSIVE lstrip(_)
lstrip(chars) ==
    IF chars # <<>> /\ Head(chars) \in Whitespace THEN lstrip(Tail(chars)) ELSE chars

RECURSIVE rstrip(_)
rstrip(chars) ==
    IF chars # <<>> /\ Last(chars) \in Whitespace THEN rstrip(Front(chars)) ELSE chars

\* str.strip
strip(chars) == rstrip(lstrip(chars))

\* handleChars giving the text before a start marker to the element that
\* the marker opens
JSONGeneratorHandler_handleChars_CountsForChild(h, stack, chars_before, tag, bIsEndTag) ==
    LET stripped_chars == strip(chars_before)
    IN  IF Len(stripped_chars) > 0
        THEN IF bIsEndTag THEN updateTokenObjectTypeName(h, tag)
             ELSE IF Len(stack) >= 2
                  THEN updateTokenObjectTypeName(h, stack[Len(stack)])
                  ELSE h
        ELSE h

\* JSONGeneratorHandler.handleChars; stack is self.elemstack
JSONGeneratorHandler_handleChars(h, stack, chars_before, tag, bIsEndTag) ==
    LET stripped_chars == strip(chars_before)
    IN  IF Len(stripped_chars) > 0
        THEN IF bIsEndTag THEN updateTokenObjectTypeName(h, tag)
             ELSE IF Len(stack) >= 2
                  THEN updateTokenObjectTypeName(h, stack[Len(stack) - 1])
                  ELSE h
        ELSE h

\* JSONGeneratorHandler.handleUnknownElementStart: the handler after it and
\* the value it returns
handleUnknownElementStart(h, tag, attributes) ==
    [h |-> createOrUpdateElement(h, tag, attributes), result |-> TRUE]

\* JSONGeneratorHandler.handleUnknownElementEnd: TRUE, or the assertion fails
handleUnknownElementEnd(h, tag) == tag \in DOMAIN h.script.handled_elements

\* the handler fields that only MQLGeneratorHandler has, and the bookkeeping
\* of the other specifications
NotOfJSON == <<objstacks, objects, tokens, curmonad, curdocindex, curid_d,
               docno, prevRuns, input, schema, ustr, mangled>>

SetJH(h) ==
    /\ script' = h.script
    /\ element2ObjectTypeName' = h.element2ObjectTypeName
    /\ objectTypeName2Element' = h.objectTypeName2Element

\* BaseHandler.startElement on a JSONGeneratorHandler
JSONStartElement(tag, attributes) ==
    /\ status = "running"
    /\ LET base == JSONGeneratorHandler(default_token_name)
           stack == Append(elemstack, tag)
           h1 == JSONGeneratorHandler_handleChars(JH, stack, Join(charstack), tag, FALSE)
           branch == IF tag \in base.nixed_elements THEN "nix"
                     ELSE IF Len(nixing_stack) # 0 THEN "pass"
                     ELSE IF tag \in base.handled_elements THEN "handle"
                     ELSE IF tag \in base.ignored_elements THEN "pass"
                     ELSE "unknown"
           unknown == handleUnknownElementStart(h1, tag, attributes)
       IN  /\ elemstack' = stack
           /\ charstack' = <<>>
           /\ nixing_stack' = IF branch = "nix"
                              THEN Append(nixing_stack, tag) ELSE nixing_stack
           /\ SetJH(IF branch = "unknown" THEN unknown.h ELSE h1)
           /\ status' = IF branch = "unknown" /\ ~unknown.result
                        THEN "UnknownStartTag" ELSE "running"
    /\ UNCHANGED NotOfJSON

\* BaseHandler.endElement on a JSONGeneratorHandler
JSONEndElement(tag) ==
    /\ status = "running"
    /\ LET base == JSONGeneratorHandler(default_token_name)
           h1 == JSONGeneratorHandler_handleChars(JH, elemstack, Join(charstack), tag, TRUE)
           branch == IF Len(nixing_stack) # 0 /\ Last(nixing_stack) = tag THEN "unnix"
                     ELSE IF Len(nixing_stack) # 0 THEN "pass"
                     ELSE IF tag \in base.handled_elements THEN "handle"
                     ELSE IF tag \in base.ignored_elements THEN "pass"
                     ELSE "unknown"
           raised == IF branch = "unknown" /\ ~handleUnknownElementEnd(h1, tag)
                     THEN "AssertionError" ELSE ""
       IN  /\ charstack' = <<>>
           /\ nixing_stack' = IF branch = "unnix"
                              THEN Front(nixing_stack) ELSE nixing_stack
           /\ SetJH(h1)
           /\ elemstack' = IF raised = "" /\ elemstack # <<>>
                           THEN Front(elemstack) ELSE elemstack
           /\ status' = IF raised # "" THEN raised
                        ELSE IF elemstack = <<>> THEN "IndexError"
                        ELSE "running"
    /\ UNCHANGED NotOfJSON

(***************************************************************************)
(* SpecJSON: one JSONGeneratorHandler under any stream of properly nested  *)
(* markers and text, which may end at any point, within the bounds.  Two   *)
(* of the tag names differ in case only, one is the token name, and text   *)
(* comes in pieces, some of them white space only.                         *)
(***************************************************************************)
JSONTags == {<<"p">>, <<"P">>, <<"t">>}

\* the attributes a start marker of tag may carry
JSONAttributes(tag) ==
    IF tag = <<"p">>
    THEN {<<>>, [key \in {<<"1", ":", "A">>} |-> <<"v">>]}
    ELSE {<<>>}

JSONTextChunks == {<<"a">>, <<" ">>, <<"\n", "a", " ">>}

InitJSON ==
    /\ LET h == JSONGeneratorHandler(default_token_name)
       IN  /\ elemstack = h.elemstack
           /\ charstack = h.charstack
           /\ nixing_stack = h.nixing_stack
           /\ script = h.script
           /\ element2ObjectTypeName = h.element2ObjectTypeName
           /\ objectTypeName2Element = h.objectTypeName2Element
    /\ objstacks = <<>>
    /\ objects = <<>>
    /\ tokens = <<>>
    /\ curmonad = 0
    /\ curdocindex = 0
    /\ curid_d = 0
    /\ schema = <<>>
    /\ status = "running"
    /\ docno = 1
    /\ prevRuns = <<>>
    /\ nevents = 0
    /\ input = <<>>
    /\ ustr = <<>>
    /\ mangled = <<>>

DeliverJSON ==
    /\ nevents < MaxEvents
    /\ nevents' = nevents + 1

NextJSON ==
    \/ \E data \in JSONTextChunks : Len(charstack) < 2 /\ Characters(data) /\ Deliver
    \/ \E tag \in JSONTags : \E attributes \in JSONAttributes(tag) :
          JSONStartElement(tag, attributes) /\ DeliverJSON
    \/ \E tag \in JSONTags : Matches(tag) /\ JSONEndElement(tag) /\ DeliverJSON
    \/ EndDocument /\ Deliver

SpecJSON == InitJSON /\ [][NextJSON]_vars

(***************************************************************************)
(* Properties.                                                             *)
(***************************************************************************)
AllTokens == DictItems(tokens)

FinishedObjects == DictItems(objects)

OpenObjects == DictItems(objstacks)

\* the positions of the tokens, as <<collection, index>>
TokenPlaces == UNION {{<<k, i>> : i \in 1..Len(tokens[k])} : k \in DOMAIN tokens}

TokensDistinct ==
    \A x, y \in TokenPlaces :
        x # y =>
            LET t == tokens[x[1]][x[2]]
                u == tokens[y[1]][y[2]]
            IN  /\ t.monad # u.monad
                /\ t.xmlindex # u.xmlindex
                /\ t.id_d # u.id_d

\* C1: under every script, no event makes the monad counter, the
\* document-index counter or the object-identifier counter decrease, and no
\* two tokens of a run share a monad, a document index or an identifier.
C1_CountersMonotone ==
    [][/\ curmonad' >= curmonad
       /\ curdocindex' >= curdocindex
       /\ curid_d' >= curid_d
       /\ TokensDistinct']_vars

\* C2: while the nixing stack is non-empty no event opens or finishes an
\* object, mints a token or moves one of the three counters.
C2_NixedNoEffect ==
    [][nixing_stack # <<>> =>
          UNCHANGED <<objstacks, objects, tokens, curmonad, curdocindex, curid_d>>]_vars

\* C4: every finished object has last monad >= first monad.
C4_SpanValid == \A o \in FinishedObjects : o.lm >= o.fm

\* C4 witness: an object was finished with no token minted since it opened,
\* and collapsed to the single monad at its first monad.
C4_Witness ==
    \E o \in FinishedObjects : o.fm = curmonad /\ o.lm = o.fm

\* the handled elements whose objects have type objectTypeName
ElementsOfType(objectTypeName) ==
    {tag \in handled_elements :
        script.handled_elements[tag].objectTypeName = objectTypeName}

\* C5: every finished object is at least as long as the minimumMonadLength
\* of its element, and the padding loop has always come to an end.
C5_MinimumLength ==
    /\ status # "Diverged"
    /\ \A o \in FinishedObjects :
          \A tag \in ElementsOfType(o.objectTypeName) :
              getMonadLength(o) >= script.handled_elements[tag].minimumMonadLength

\* C5 witness: an object with a minimum length above 1 was finished after a
\* token was minted inside it, and was padded to that length.
C5_Witness ==
    \E o \in FinishedObjects :
        /\ \E tag \in ElementsOfType(o.objectTypeName) :
              script.handled_elements[tag].minimumMonadLength = MaxMinLen
        /\ \E t \in AllTokens : t.monad = o.fm
        /\ getMonadLength(o) = MaxMinLen

Max(a, b) == IF a > b THEN a ELSE b

\* the object an end marker for tag is about to finish
ClosingObject(tag) == Last(objstacks[script.handled_elements[tag].objectTypeName])

\* the object an end marker for tag has just finished
ClosedObject(tag) == Last(objects[script.handled_elements[tag].objectTypeName])

\* an end marker for tag is handled by handleElementEnd
EndsHandled(tag) ==
    /\ EndElement(tag)
    /\ EndBranch(tag) = "handle"
    /\ script.handled_elements[tag].objectTypeName \in DOMAIN objstacks
    /\ objstacks[script.handled_elements[tag].objectTypeName] # <<>>

\* the step appends to collection tt one token per triple, in order, at the
\* consecutive monads first, first + 1, ...
MintsAt(tt, triples, first) ==
    LET old == Len(tokens[tt])
    IN  /\ Len(tokens'[tt]) = old + Len(triples)
        /\ SubSeq(tokens'[tt], 1, old) = tokens[tt]
        /\ \A i \in 1..Len(triples) :
              LET t == tokens'[tt][old + i]
              IN  /\ t.monad = first + i - 1
                  /\ t.prefix = triples[i].prefix
                  /\ t.surface = triples[i].surface
                  /\ t.suffix = triples[i].suffix

\* the end marker of a handled element with a token type and minimum length
\* 1 whose buffered text tokenizes into at least one triple
C6_Case(tag) ==
    /\ EndsHandled(tag)
    /\ script.handled_elements[tag].tokenObjectTypeName # None
    /\ script.handled_elements[tag].minimumMonadLength = 1
    /\ Len(tokenize_string(Join(charstack))) >= 1

C6_Post(tag, first) ==
    LET triples == tokenize_string(Join(charstack))
    IN  /\ MintsAt(script.handled_elements[tag].tokenObjectTypeName, triples, first)
        /\ ClosedObject(tag)'.fm = ClosingObject(tag).fm
        /\ ClosedObject(tag)'.lm = first + Len(triples) - 1

\* C6 as stated: the n tokens of an element opened at monad m are minted at
\* m .. m+n-1 and its object spans [m, m+n-1].
C6_TokensFromOpeningMonad ==
    [][\A tag \in Tags :
          C6_Case(tag) => C6_Post(tag, ClosingObject(tag).fm)]_vars

\* C6 amended: the n tokens are minted, in triple order, at c .. c+n-1, c
\* being the monad counter at the end marker, and the object of an element
\* opened at m spans [m, c+n-1].
C6_TokensFromCounter ==
    [][\A tag \in Tags : C6_Case(tag) => C6_Post(tag, curmonad)]_vars

\* C6 witness: a paragraph was finished whose two tokens follow, one monad
\* each, the monads a child element had taken, and end its span.
C6_Witness ==
    /\ "paragraph" \in DOMAIN objects
    /\ \E o \in {objects["paragraph"][j] : j \in 1..Len(objects["paragraph"])} :
          \E i \in 1..(Len(tokens["word"]) - 1) :
              /\ tokens["word"][i].monad > o.fm
              /\ tokens["word"][i + 1].monad = tokens["word"][i].monad + 1
              /\ tokens["word"][i + 1].monad = o.lm
              /\ tokens["word"][i].surface = <<"a">>
              /\ tokens["word"][i + 1].surface = <<"b">>

\* the end marker of a handled element with no token type and a minimum
\* length of at least 1, no token having been minted since it opened
C7_Case(tag) ==
    /\ EndsHandled(tag)
    /\ script.handled_elements[tag].tokenObjectTypeName = None
    /\ script.handled_elements[tag].minimumMonadLength >= 1
    /\ \A t \in AllTokens : t.monad < ClosingObject(tag).fm

C7_Post(tag, last) ==
    /\ ClosedObject(tag)'.fm = ClosingObject(tag).fm
    /\ ClosedObject(tag)'.lm = last
    /\ \A t \in AllTokens' : t.monad < ClosingObject(tag).fm \/ t.monad > last

\* C7 as stated: the object spans exactly [m, m+L-1], with no token on it.
C7_SpansExactlyMinimum ==
    [][\A tag \in Tags :
          C7_Case(tag) =>
              C7_Post(tag, ClosingObject(tag).fm
                           + script.handled_elements[tag].minimumMonadLength - 1)]_vars

\* C7 amended: the object spans [m, max(m+L-1, c-1)], c being the monad
\* counter at the end marker, with no token on it; that is exactly L monads
\* when c = m.
C7_SpansMinimumOrChildren ==
    [][\A tag \in Tags :
          C7_Case(tag) =>
              C7_Post(tag, Max(ClosingObject(tag).fm
                               + script.handled_elements[tag].minimumMonadLength - 1,
                               curmonad - 1))]_vars

\* C7 witness: a milestone closed as soon as it opened spans MaxMinLen
\* monads, none of them holding a token.
C7_Witness ==
    /\ "milestone" \in DOMAIN objects
    /\ \E o \in {objects["milestone"][j] : j \in 1..Len(objects["milestone"])} :
          /\ getMonadLength(o) = MaxMinLen
          /\ curmonad = o.lm + 1
          /\ \A t \in AllTokens : t.monad < o.fm

\* the (prefix, surface, suffix) triples of a list of tokens
Triples(toks) ==
    [i \in 1..Len(toks) |->
        [prefix |-> toks[i].prefix, surface |-> toks[i].surface,
         suffix |-> toks[i].suffix]]

\* C3: once <p> A <note> ... </note> D </p> has been read, there is exactly
\* one object, the one of the outer p, and the tokens are the tokenization
\* of A followed by that of D.
C3_TextAroundNixedSubtree ==
    (nevents = Len(input) /\ status = "done") =>
        /\ OpenObjects = {}
        /\ DOMAIN objects = {"paragraph"}
        /\ Len(objects["paragraph"]) = 1
        /\ Triples(tokens[TokenTypeName]) =
              tokenize_string(ScenarioA(input)) \o tokenize_string(ScenarioD(input))

\* the smallest and the largest of a non-empty set of monads
MinOf(S) == CHOOSE x \in S : \A y \in S : x <= y

MaxOf(S) == CHOOSE x \in S : \A y \in S : x >= y

\* C8: when the document before this one produced an object, the smallest
\* monad used in this document is the largest monad used in that one, plus 1.
C8_NextDocumentStartsAfter ==
    (prevRuns # <<>> /\ Last(prevRuns).nobjects >= 1 /\ MonadsUsed # {}) =>
        MinOf(MonadsUsed) = MaxOf(Last(prevRuns).monads) + 1

\* C9: the handler of the next document starts with the three counters the
\* handler of the previous document ended with.
C9_CountersCarryOver ==
    [][docno' = docno + 1 =>
          /\ curmonad' = curmonad
          /\ curdocindex' = curdocindex
          /\ curid_d' = curid_d]_vars

\* C10: a run that has completed normally has no open element and no open
\* object.
C10_EndOfInputBalanced ==
    status = "done" =>
        /\ elemstack = <<>>
        /\ OpenObjects = {}

\* C11: an end marker that does not match the innermost open element (or
\* comes when no element is open) ends the run with an error, whatever the
\* classification of its tag; it pops no element and finishes no object.
C11_OrphanEndIsFatal ==
    [][\A tag \in Tags :
          (EndElement(tag) /\ ~Matches(tag)) =>
              /\ status' # "running"
              /\ elemstack' = elemstack
              /\ objects' = objects]_vars

\* tag is in none of the three sets of the script
Unknown(tag) == tag \notin handled_elements \cup ignored_elements \cup nixed_elements

\* the step creates no token and no object and moves no counter
NothingCreated ==
    UNCHANGED <<objstacks, objects, tokens, curmonad, curdocindex, curid_d>>

\* C12: a start or end marker with an unknown tag raises the unknown-marker
\* error exactly when the nixing stack is empty; with a non-empty nixing
\* stack (and, for an end marker, an element to pop) the run goes on; when
\* the error is raised the step has created nothing and moved no counter.
C12_UnknownRaisesUnlessNixed ==
    [][\A tag \in Tags :
          Unknown(tag) =>
              /\ (\E attributes \in Attributes(tag) : StartElement(tag, attributes)) =>
                    /\ status' = "UnknownStartTag" <=> nixing_stack = <<>>
                    /\ nixing_stack # <<>> => status' = "running"
                    /\ status' = "UnknownStartTag" => NothingCreated
              /\ EndElement(tag) =>
                    /\ status' = "UnknownEndTag" <=> nixing_stack = <<>>
                    /\ (nixing_stack # <<>> /\ elemstack # <<>>) => status' = "running"
                    /\ status' = "UnknownEndTag" => NothingCreated]_vars

\* C12 witness: an end marker with an unknown tag was refused while an
\* object was open and text was buffered; no token was minted.
C12_Witness ==
    /\ status = "UnknownEndTag"
    /\ OpenObjects # {}
    /\ AllTokens = {}
    /\ nevents >= 3

\* C13: unescaping the bytes mangleMQLString returns gives back the UTF-8
\* bytes of the string it was given (so no two strings are mangled alike).
C13_MangleReversible ==
    mangled # <<>> => unmangle(mangled[1]) = encode_utf8(ustr)

\* C13 witness: the four characters backslash x c 3 were mangled, as were
\* the two bytes c3 a9 of e-acute, into different bytes.
C13_Witness ==
    /\ mangled # <<>>
    /\ ustr = <<92, 120, 99, 51>>
    /\ mangled[1] = <<92, 92, 120, 99, 51>>
    /\ mangleMQLString(<<233>>) = <<92, 120, 99, 51, 92, 120, 97, 57>>

\* the document index recorded in an object
DocIndexOf(o) == o.nonStringFeatures[script.global_parameters.docIndexFeatureName]

\* the object type of a handled tag
TypeOf(tag) == script.handled_elements[tag].objectTypeName

\* the length of the part of the element stack below its first nixed tag
NixFree(stack) ==
    LET nixed == {j \in 1..Len(stack) : stack[j] \in nixed_elements}
    IN  IF nixed = {} THEN Len(stack)
        ELSE (CHOOSE j \in nixed : \A k \in nixed : j <= k) - 1

\* the positions of the element stack whose start marker created an object
\* of type T: handled elements, outside any nixed subtree
Creating(stack, T) ==
    {j \in 1..NixFree(stack) : stack[j] \in handled_elements /\ TypeOf(stack[j]) = T}

\* each type's stack of open objects holds one object per open element
\* that created an object of the type, the newer above the older
StackShape(stack, stacks) ==
    /\ \A j \in 1..NixFree(stack) :
          stack[j] \in handled_elements => TypeOf(stack[j]) \in DOMAIN stacks
    /\ \A T \in DOMAIN stacks :
          /\ Len(stacks[T]) = Cardinality(Creating(stack, T))
          /\ \A k \in 1..(Len(stacks[T]) - 1) :
                DocIndexOf(stacks[T][k]) < DocIndexOf(stacks[T][k + 1])

\* the step is a start marker for tag that creates an object
StartsHandled(tag) ==
    /\ elemstack' = Append(elemstack, tag)
    /\ StartBranch(tag) = "handle"
    /\ \E attributes \in Attributes(tag) : StartElement(tag, attributes)

\* the step is the end marker of the innermost open element, handled by
\* handleElementEnd
EndsMatching(tag) ==
    /\ Matches(tag)
    /\ EndBranch(tag) = "handle"
    /\ EndElement(tag)

\* no two objects, open or finished, have the same document index
ObjectsDistinct ==
    /\ Cardinality({DocIndexOf(o) : o \in OpenObjects \cup FinishedObjects})
          = DictCount(objstacks) + DictCount(objects)

\* C14: under properly nested markers a handled end marker always finds an
\* open object of its type, and the one it finishes is the one its start
\* marker created (the newest of all open objects, the open objects being
\* those the open elements created); start markers add one open object, end
\* markers move one to the finished objects and no other step touches
\* them, so every object is finished once and none is open when the last
\* element has been closed.
C14_ObjectsFollowNesting ==
    [][/\ status' \notin {"KeyError", "IndexError"}
       /\ StackShape(elemstack', objstacks')
       /\ ObjectsDistinct'
       /\ \A tag \in Tags :
             StartsHandled(tag) =>
                 /\ objects' = objects
                 /\ objstacks' = DictSet(objstacks, TypeOf(tag), objstacks'[TypeOf(tag)])
                 /\ Front(objstacks'[TypeOf(tag)]) = DictGet(objstacks, TypeOf(tag), <<>>)
                 /\ DocIndexOf(Last(objstacks'[TypeOf(tag)])) = curdocindex
                 /\ \A o \in OpenObjects : DocIndexOf(o) < curdocindex
       /\ \A tag \in Tags :
             EndsMatching(tag) =>
                 /\ TypeOf(tag) \in DOMAIN objstacks
                 /\ objstacks[TypeOf(tag)] # <<>>
                 /\ objstacks' = DictSet(objstacks, TypeOf(tag), Front(objstacks[TypeOf(tag)]))
                 /\ objects' = DictSet(objects, TypeOf(tag), objects'[TypeOf(tag)])
                 /\ Front(objects'[TypeOf(tag)]) = DictGet(objects, TypeOf(tag), <<>>)
                 /\ [ClosedObject(tag)' EXCEPT !.lm = 0] = [ClosingObject(tag) EXCEPT !.lm = 0]
                 /\ \A o \in OpenObjects : DocIndexOf(o) <= DocIndexOf(ClosingObject(tag))
       /\ (\A tag \in Tags : ~StartsHandled(tag) /\ ~EndsMatching(tag)) =>
             UNCHANGED <<objstacks, objects>>
       /\ elemstack' = <<>> => OpenObjects' = {}]_vars

\* C14 witness: the document is over and no element or object is open; two
\* objects of one type were finished, the one created later first.
C14_Witness ==
    /\ status = "done"
    /\ elemstack = <<>>
    /\ OpenObjects = {}
    /\ "division" \in DOMAIN objects
    /\ Len(objects["division"]) = 2
    /\ DocIndexOf(objects["division"][1]) > DocIndexOf(objects["division"][2])

\* C15: after a handled end marker the monad counter is past the last
\* monad of the object just finished (so nothing that comes later is placed
\* inside its span).
C15_CounterPastFinished ==
    [][\A tag \in Tags :
          EndsHandled(tag) => curmonad' > ClosedObject(tag)'.lm]_vars

\* the end marker of a handled element with a token type whose buffered
\* text tokenizes into at least one triple
MintsTokens(tag) ==
    /\ Matches(tag)
    /\ tag \in handled_elements
    /\ script.handled_elements[tag].tokenObjectTypeName # None
    /\ Len(tokenize_string(Join(charstack))) >= 1
    /\ EndElement(tag)

\* the pre-increment C16 states: the configured value, or 1 when none is
\* configured, and never less than 1
StatedIncrement(tokenObjectTypeName) ==
    Max(1, DictGet(script.global_parameters.docIndexIncrementBeforeObjectType,
                   tokenObjectTypeName, 1))

\* C16: each token minted records the document index reached by adding
\* max(1, configured value) to the counter and leaves the counter one
\* above it; the monad and identifier counters advance by 1 per token.
C16_PreIncrementIsMax ==
    [][\A tag \in Tags :
          MintsTokens(tag) =>
              LET tt  == script.handled_elements[tag].tokenObjectTypeName
                  k   == StatedIncrement(tt)
                  old == Len(tokens[tt])
                  n   == Len(tokenize_string(Join(charstack)))
              IN  /\ Len(tokens'[tt]) = old + n
                  /\ \A i \in 1..n :
                        /\ tokens'[tt][old + i].xmlindex = curdocindex + i * (k + 1) - 1
                        /\ tokens'[tt][old + i].monad = curmonad + i - 1
                        /\ tokens'[tt][old + i].id_d = curid_d + i - 1
                  /\ curdocindex' = curdocindex + n * (k + 1)
                  /\ curid_d' = curid_d + n]_vars

IsNixed(tag) == tag \in nixed_elements

\* C17: the nixing stack is the element stack restricted to nixed tags (so
\* it empties exactly when the outermost nixed element is closed), and
\* when it is empty every open handled element has its open object.
C17_NixingFollowsElements ==
    /\ nixing_stack = SelectSeq(elemstack, IsNixed)
    /\ nixing_stack = <<>> =>
          \A tag \in handled_elements :
              Cardinality({j \in 1..Len(elemstack) :
                              /\ elemstack[j] \in handled_elements
                              /\ TypeOf(elemstack[j]) = TypeOf(tag)})
                = Len(DictGet(objstacks, TypeOf(tag), <<>>))

\* C17 witness: five markers have been read, the last one the start marker
\* of d, for which an object is open (the first object of the run); as after
\* <note> <m> </m> </note> <d> with m nixed.
C17_Witness ==
    /\ "m" \in nixed_elements
    /\ nevents = 5
    /\ elemstack = <<"d">>
    /\ nixing_stack = <<>>
    /\ charstack = <<>>
    /\ FinishedObjects = {}
    /\ \E o \in OpenObjects : DocIndexOf(o) = 1 /\ o.objectTypeName = "division"

\* C18: a start marker that is handled adds one open object whose first
\* monad is the monad counter and whose document index is the
\* document-index counter, advances that counter by 1, and leaves the monad
\* counter, the identifier counter, the tokens and the finished objects
\* as they were.
C18_HandledStartFrame ==
    [][\A tag \in Tags :
          StartsHandled(tag) =>
              /\ Len(objstacks'[TypeOf(tag)])
                    = Len(DictGet(objstacks, TypeOf(tag), <<>>)) + 1
              /\ Last(objstacks'[TypeOf(tag)]).fm = curmonad
              /\ DocIndexOf(Last(objstacks'[TypeOf(tag)])) = curdocindex
              /\ curdocindex' = curdocindex + 1
              /\ UNCHANGED <<curmonad, curid_d, tokens, objects>>]_vars

\* C18 witness: the innermost open element is a d whose start marker
\* carried attributes; its object starts at the monad counter, which a
\* token has moved from 1, and has the document index before the counter.
C18_Witness ==
    /\ elemstack # <<>>
    /\ Last(elemstack) = "d"
    /\ AllTokens # {}
    /\ curmonad > 1
    /\ \E o \in OpenObjects :
          /\ o.objectTypeName = "division"
          /\ o.fm = curmonad
          /\ DocIndexOf(o) = curdocindex - 1
          /\ o.stringFeatures # <<>>

\* the names in tokenObjectTypeNameList
TokenTypeNames ==
    {script.global_parameters.tokenObjectTypeNameList[i] :
        i \in 1..Len(script.global_parameters.tokenObjectTypeNameList)}

\* the features declared by the attributes of the handled elements of
\* object type T, as featureName -> featureType
DeclaredFeatures(T) ==
    LET decls == UNION {{script.handled_elements[tag].attributes[key] :
                            key \in DOMAIN script.handled_elements[tag].attributes} :
                        tag \in {t \in handled_elements :
                                    /\ TypeOf(t) = T
                                    /\ "attributes" \in DOMAIN script.handled_elements[t]}}
    IN  [name \in {d.featureName : d \in decls} |->
            (CHOOSE d \in decls : d.featureName = name).featureType]

\* C19: the schema has one entry per token type name, with the token
\* features and the document-index INTEGER feature, one entry per object
\* type of a handled element, with exactly the features its attributes
\* declare and the document-index INTEGER feature, and no other entry.
C19_SchemaMatchesScript ==
    LET docIndex == script.global_parameters.docIndexFeatureName
    IN  /\ DOMAIN schema = TokenTypeNames \cup {TypeOf(tag) : tag \in handled_elements}
        /\ \A T \in TokenTypeNames :
              /\ T \in DOMAIN schema
              /\ schema[T].features = makeTokenDescription(T).features
              /\ schema[T].features[docIndex] = "INTEGER"
        /\ \A tag \in handled_elements :
              /\ TypeOf(tag) \in DOMAIN schema
              /\ schema[TypeOf(tag)].features
                    = DictSet(DeclaredFeatures(TypeOf(tag)), docIndex, "INTEGER")

\* C20: when an element is closed, every object finished since its own
\* object was created (the objects of the elements opened and closed inside
\* it) lies inside the span its object is finished with.
C20_ChildrenInsideParent ==
    [][\A tag \in Tags :
          EndsHandled(tag) =>
              \A o \in FinishedObjects :
                  DocIndexOf(o) > DocIndexOf(ClosingObject(tag)) =>
                      /\ ClosedObject(tag)'.fm <= o.fm
                      /\ o.lm <= ClosedObject(tag)'.lm]_vars

\* the feature names a schema entry, as written, gives a type to
DeclaredNames(entry) == {line.right : line \in entry}

\* C21: once the document has been read, every feature name assigned in a
\* statement written for a token or a finished object is declared in the
\* schema entry written for the object type of the statement.
C21_OutputFeaturesDeclared ==
    status = "done" =>
        \A st \in dumpMQLObjects :
            /\ st.objectTypeName \in DOMAIN dumpMQLSchema
            /\ st.features \subseteq DeclaredNames(dumpMQLSchema[st.objectTypeName])

\* some character of the text waiting in charstack is not white space
PendingText ==
    \E i \in 1..Len(charstack) : \E j \in 1..Len(charstack[i]) :
        charstack[i][j] \notin Whitespace

\* the script gives element t the token name
HasTokens(elements, t) ==
    t \in DOMAIN elements /\ elements[t].tokenObjectTypeName = default_token_name

\* what one event does to the script
BootstrapStep ==
    LET opened == Len(elemstack') > Len(elemstack)
        closed == Len(elemstack') < Len(elemstack)
    IN  /\ status' \in {"running", "done"}
        /\ DOMAIN script'.handled_elements =
               IF opened THEN DOMAIN script.handled_elements \cup {Last(elemstack')}
               ELSE DOMAIN script.handled_elements
        /\ \A t \in DOMAIN script'.handled_elements :
               /\ script'.handled_elements[t].tokenObjectTypeName
                      \in {None, default_token_name}
               /\ HasTokens(script'.handled_elements, t) <=>
                      \/ HasTokens(script.handled_elements, t)
                      \/ /\ opened \/ closed
                         /\ PendingText
                         /\ elemstack # <<>>
                         /\ Last(elemstack) = t

\* C22: a JSONGeneratorHandler under a properly nested stream never raises;
\* its script starts with no handled element, a start marker adds its tag
\* name and nothing else ever changes the names, so handled_elements holds
\* exactly the tag names seen; and an element has the default token name
\* after an event exactly if it had it before or the event is a marker met
\* while the element is the innermost open one and the text waiting since
\* the marker before has a character that is not white space (text before a
\* child's start marker counts for the parent, text before an end marker
\* for the element it closes); otherwise tokenObjectTypeName is None, and
\* the token name once given is kept at later occurrences.
C22_BootstrapScript ==
    /\ DOMAIN script.handled_elements = {}
    /\ [][BootstrapStep]_vars

\* C22 witness: six events have been read and every element is closed; p
\* has the token name and P, given the type name "p_", has not
C22_Witness ==
    /\ status = "running"
    /\ nevents = 6
    /\ elemstack = <<>>
    /\ charstack = <<>>
    /\ DOMAIN script.handled_elements = {<<"p">>, <<"P">>}
    /\ script.handled_elements[<<"p">>].tokenObjectTypeName = default_token_name
    /\ script.handled_elements[<<"P">>].tokenObjectTypeName = None
    /\ script.handled_elements[<<"P">>].objectTypeName = "p_"

====
